---- MODULE Spec2Model ----
(***************************************************************************)
(* ExpenseFlow Pro launcher: the process-supervision and readiness-polling *)
(* lifecycle of start_expenseflow.py (ExpenseFlowStarter.run, script       *)
(* "full") and of start_simple.py (main, script "simple").                 *)
(*                                                                         *)
(* The foreground sequence is one thread whose position is pc.  The        *)
(* operating system (child processes exiting, SIGKILL taking effect), the  *)
(* operator's interrupt signal and the daemon monitor thread are the       *)
(* other actors.  Signals are delivered asynchronously: a child leaves     *)
(* the "running" state only by a step of the operating system.             *)
(***************************************************************************)
EXTENDS Integers, Sequences, FiniteSets, TLC

\* ---------------------------------------------------------------- constants

\* wait_for_service("http://localhost:3002/api/health", "Backend", 30)
BackendTimeout == 30
\* wait_for_service("http://localhost:3000", "Frontend", 45)
FrontendTimeout == 45
\* requests.get(url, timeout=3)
RequestTimeout == 3
\* How long one GET takes: it answers at once, or only when its timeout ends.
Durations == {0, RequestTimeout}
\* time.sleep(1) at the end of every polling iteration
PollInterval == 1
\* process.wait(timeout=5)
GracePeriod == 5
\* time.sleep(10) at the head of the monitor thread's loop
MonitorInterval == 10

Services == {"backend", "frontend"}
Scripts == {"full", "simple"}

\* The status codes the health collaborator is given to answer with: the
\* ready one, another 2xx one, and a not-ready one.
StatusCodes == {200, 204, 503}
\* Error kinds of one GET: the two requests.exceptions.RequestException kinds
\* a starting service produces, and one error outside that hierarchy.
RequestExceptions == {"ConnectionError", "Timeout"}
ErrorKinds == RequestExceptions \cup {"OtherError"}
NoResponse == [status |-> 0, error |-> "unset"]
Responses ==
    {[status |-> c, error |-> "none"] : c \in StatusCodes}
        \cup {[status |-> 0, error |-> e] : e \in ErrorKinds}

VARIABLES
    script,        \* which launcher runs
    pc,            \* position of the foreground sequence
    handle,        \* backend_process / frontend_process: "None" or "Popen"
    os,            \* the child as the OS has it: "none", "running", "exited"
    termLog,       \* services in the order a termination request reached them
    killed,        \* services a forceful kill has been sent to
    timedOut,      \* services whose wait(timeout=5) raised TimeoutExpired
    terminated,    \* services whose terminate-wait-kill block has completed
    waited,        \* time spent in the current wait(timeout=5)
    clIdx,         \* which entry of the cleanup order is being handled
    cleanupCalls,  \* number of times the cleanup routine was entered
    svc,           \* the service the running probe polls
    i,             \* loop variable of the polling loop
    attempts,      \* GETs issued by the running probe
    notReady,      \* attempts of the running probe that were not ready
    elapsed,       \* time since the running probe was called
    lastResp,      \* outcome of the latest GET of the probe
    probeResult,   \* per service: "none", "ready", "timeout"
    retVal,        \* value of the return statement executed in the try block
    exitPath,      \* which return statement that was
    raising,       \* exception propagating out of the try statement
    interruptedAt, \* where the interrupt the try block caught arrived
    outcome,       \* how the launcher ended: "running", "exit0", "exit1", ...
    depsOk,        \* check_node_installed: "unchecked", "True" or "False"
    preempted,     \* kill_existing_processes: "no", "ok" or "warning"
    spawns,        \* per service: number of Popen calls made to start it
    startOk,       \* per service: what its start operation reported
    monitorOn,     \* the daemon monitor thread has been started
    reported,      \* services the monitor has reported as stopped
    monTimer,      \* time the monitor thread has spent in its current sleep
    watched,       \* time the backend has been gone, unreported, monitor running
    unwatched      \* whether time passed with the backend gone and no monitor

procVars ==
    <<handle, os, termLog, killed, timedOut, terminated, waited, clIdx>>
probeVars == <<svc, i, attempts, notReady, elapsed, lastResp, probeResult>>
exitVars == <<retVal, exitPath, raising, interruptedAt, outcome, cleanupCalls>>
startVars == <<depsOk, preempted, spawns, startOk>>
monVars == <<monitorOn, reported, monTimer, watched, unwatched>>
vars == <<script, pc, procVars, probeVars, exitVars, startVars, monVars>>

Init ==
    /\ script \in Scripts
    /\ pc = "banner"
    /\ handle = [s \in Services |-> "None"]
    /\ os = [s \in Services |-> "none"]
    /\ termLog = <<>>
    /\ killed = {}
    /\ timedOut = {}
    /\ terminated = {}
    /\ waited = 0
    /\ clIdx = 1
    /\ cleanupCalls = 0
    /\ svc = "backend"
    /\ i = 0
    /\ attempts = 0
    /\ notReady = 0
    /\ elapsed = 0
    /\ lastResp = NoResponse
    /\ probeResult = [s \in Services |-> "none"]
    /\ retVal = "none"
    /\ exitPath = "none"
    /\ raising = "none"
    /\ interruptedAt = "none"
    /\ outcome = "running"
    /\ depsOk = "unchecked"
    /\ preempted = "no"
    /\ spawns = [s \in Services |-> 0]
    /\ startOk = [s \in Services |-> "none"]
    /\ monitorOn = FALSE
    /\ reported = {}
    /\ monTimer = 0
    /\ watched = 0
    /\ unwatched = FALSE

\* ------------------------------------------------- control flow of the try

\* The values the two launchers return: run() returns True / False, which
\* main() turns into 0 / 1; start_simple's main() returns 0 / 1 itself.
OkValueIsFailure == IF script = "full" THEN "False" ELSE "1"

OkValue == IF script = "full" THEN "True" ELSE "0"
FailValue == IF script = "full" THEN "False" ELSE "1"

\* Positions inside the try block (the startup steps and the idle-wait).
ProbePcs == {"probe_get", "probe_sleep", "probe_ret"}
StartFrontendPcs ==
    {"start_frontend", "sf_install", "sf_alt_install", "sf_popen", "sf_alt_popen"}
TryPcs ==
    {"check_node", "kill_existing", "create_env", "start_backend", "sleep_b",
     "test_endpoints", "cat_test", "frontend_manual", "sleep_f",
     "start_monitor", "open_browser", "print_summary", "idle"}
        \cup ProbePcs \cup StartFrontendPcs
HandlerPcs == {"except_KI", "except_Exc"}
CleanupPcs == {"cl_begin", "cl_guard", "cl_wait", "cl_kill", "cl_end"}

\* Control enters the finally clause, whose one statement calls the cleanup
\* routine (self.cleanup(), or the inline block of start_simple).
EnterFinally ==
    /\ pc' = "cl_begin"
    /\ cleanupCalls' = cleanupCalls + 1

\* A return statement inside the try block: the value is kept and the
\* finally clause runs before run() / main() really returns.
ReturnFromTryDirect(v, path) ==
    /\ retVal' = v
    /\ exitPath' = path
    /\ pc' = "run_exit"
    /\ UNCHANGED <<raising, interruptedAt, outcome, cleanupCalls>>

ReturnFromTry(v, path) ==
    /\ retVal' = v
    /\ exitPath' = path
    /\ EnterFinally
    /\ UNCHANGED <<raising, interruptedAt, outcome>>

\* An exception other than KeyboardInterrupt raised inside the try block is
\* caught by "except Exception".
RaiseInTry ==
    /\ pc' = "except_Exc"
    /\ UNCHANGED exitVars

\* ------------------------------------------------------------ startup steps

\* The first step inside the try block: step 1 of run() is the dependency
\* check, step 1 of start_simple's main() is the preemption by name.
AfterBannerSkipsPreemption ==
    IF script = "full" THEN "check_node" ELSE "start_backend"

AfterBanner == IF script = "full" THEN "check_node" ELSE "kill_existing"

\* The banner is printed before the try statement is entered.
Banner ==
    /\ pc = "banner"
    /\ pc' = AfterBanner
    /\ UNCHANGED <<script, procVars, probeVars, exitVars, startVars, monVars>>

\* "if not self.check_node_installed(): return False"
DependencyMissingIgnored ==
    /\ pc' = "kill_existing"
    /\ UNCHANGED exitVars

DependencyMissing == ReturnFromTry(FailValue, "dep_missing")

\* Step 1 of run(): node --version, then npm --version.
CheckNodeInstalled ==
    /\ pc = "check_node"
    /\ \E nodeOk \in BOOLEAN, npmOk \in BOOLEAN :
         IF nodeOk /\ npmOk
         THEN /\ depsOk' = "True"
              /\ pc' = "kill_existing"
              /\ UNCHANGED exitVars
         ELSE /\ depsOk' = "False"
              /\ DependencyMissing
    /\ UNCHANGED <<script, procVars, probeVars, preempted, spawns, startOk, monVars>>

\* Where the sequence goes after kill_existing_processes(): the routine
\* catches every Exception itself ("Warning during cleanup") and returns.
AfterPreemptionFatal(toolError) ==
    IF toolError THEN "except_Exc"
    ELSE IF script = "full" THEN "create_env" ELSE "start_backend"

AfterPreemption(toolError) ==
    IF script = "full" THEN "create_env" ELSE "start_backend"

\* Step 2: best-effort kill by name; any error is caught inside and logged.
KillExistingProcesses ==
    /\ pc = "kill_existing"
    /\ \E toolError \in BOOLEAN :
         /\ preempted' = IF toolError THEN "warning" ELSE "ok"
         /\ pc' = AfterPreemption(toolError)
    /\ UNCHANGED <<script, procVars, probeVars, exitVars, depsOk, spawns, startOk,
                   monVars>>

\* Step 3: write frontend/.env.local when absent; a failing write raises.
CreateEnvFile ==
    /\ pc = "create_env"
    /\ \E writeOk \in BOOLEAN :
         IF writeOk
         THEN pc' = "start_backend" /\ UNCHANGED exitVars
         ELSE RaiseInTry
    /\ UNCHANGED <<script, procVars, probeVars, startVars, monVars>>

\* subprocess.Popen succeeded for service s: the handle is stored and the
\* child runs.
Spawned(s) ==
    /\ handle' = [handle EXCEPT ![s] = "Popen"]
    /\ os' = [os EXCEPT ![s] = "running"]
    /\ UNCHANGED <<termLog, killed, timedOut, terminated, waited, clIdx>>

\* Step 4: start_backend().
StartBackend ==
    /\ pc = "start_backend"
    /\ \E res \in {"missing_file", "spawn_error", "spawned"} :
         /\ spawns' = [spawns EXCEPT
                          !["backend"] = IF res = "missing_file" THEN @ ELSE @ + 1]
         /\ startOk' = [startOk EXCEPT !["backend"] = IF res = "spawned" THEN "True" ELSE "False"]
         /\ IF res = "spawned"
            THEN /\ Spawned("backend")
                 /\ pc' = "sleep_b"
                 /\ UNCHANGED exitVars
            ELSE /\ ReturnFromTry(FailValue, "backend_failed")
                 /\ UNCHANGED procVars
    /\ UNCHANGED <<script, probeVars, depsOk, preempted, monVars>>

\* ---------------------------------------------------------- readiness probe

\* The timeout argument of the probe: 30 for the backend (both scripts), 45
\* for the frontend.
ProbeTimeout(s) == IF s = "backend" THEN BackendTimeout ELSE FrontendTimeout

\* "if response.status_code == 200"
IsReadyAny2xx(r) == r.error = "none" /\ r.status >= 200 /\ r.status < 300

IsReady(r) == r.error = "none" /\ r.status = 200

\* "except requests.exceptions.RequestException: pass"
IsSwallowed(r) == r.error \in RequestExceptions

\* "for i in range(timeout)": whether another iteration follows iteration k.
LoopContinuesOffByOne(k, timeout) == k + 1 <= timeout

LoopContinues(k, timeout) == k + 1 < timeout

\* The locals of a probe call as a fresh call has them.
ProbeLocalsReset ==
    /\ i' = 0
    /\ attempts' = 0
    /\ notReady' = 0
    /\ elapsed' = 0
    /\ lastResp' = NoResponse

\* time.sleep(5) / time.sleep(8), then the probe is called for service s.
\* wait_for_backend of start_simple first makes sure the requests library is
\* there and returns False at once when it cannot be installed.
CallProbe(s) ==
    /\ svc' = s
    /\ ProbeLocalsReset
    /\ \E clientOk \in BOOLEAN :
         IF clientOk \/ script = "full"
         THEN pc' = "probe_get" /\ UNCHANGED probeResult
         ELSE /\ pc' = "probe_ret"
              /\ probeResult' = [probeResult EXCEPT ![s] = "no_client"]
    /\ UNCHANGED <<script, procVars, exitVars, startVars, monVars>>

SleepThenProbeBackend ==
    /\ pc = "sleep_b"
    /\ CallProbe("backend")

SleepThenProbeFrontend ==
    /\ pc = "sleep_f"
    /\ CallProbe("frontend")

\* One attempt: requests.get(url, timeout=3) answers r after d time units.
ProbeGet ==
    /\ pc = "probe_get"
    /\ \E r \in Responses, d \in Durations :
         /\ r.error = "Timeout" => d = RequestTimeout
         /\ lastResp' = r
         /\ IF IsReady(r)
            THEN /\ pc' = "probe_ret"
                 /\ probeResult' = [probeResult EXCEPT ![svc] = "ready"]
                 /\ attempts' = attempts + 1
                 /\ elapsed' = elapsed + d
                 /\ UNCHANGED <<i, notReady, exitVars>>
            ELSE IF r.error = "none" \/ IsSwallowed(r)
            THEN /\ pc' = "probe_sleep"
                 /\ attempts' = attempts + 1
                 /\ elapsed' = elapsed + d
                 /\ notReady' = notReady + 1
                 /\ UNCHANGED <<i, probeResult, exitVars>>
            ELSE /\ RaiseInTry
                 /\ i' = 0 /\ attempts' = 0 /\ notReady' = 0 /\ elapsed' = 0
                 /\ UNCHANGED probeResult
    /\ UNCHANGED <<script, procVars, svc, startVars, monVars>>

\* time.sleep(1), then the next iteration or the end of the loop.
ProbeSleep ==
    /\ pc = "probe_sleep"
    /\ elapsed' = elapsed + PollInterval
    /\ lastResp' = NoResponse
    /\ IF LoopContinues(i, ProbeTimeout(svc))
       THEN /\ i' = i + 1
            /\ pc' = "probe_get"
            /\ UNCHANGED probeResult
       ELSE /\ pc' = "probe_ret"
            /\ probeResult' = [probeResult EXCEPT ![svc] = "timeout"]
            /\ UNCHANGED i
    /\ UNCHANGED <<script, procVars, svc, attempts, notReady,
                   exitVars, startVars, monVars>>

\* The probe returns True or False to its caller, which logs a warning on
\* False and goes on with the next step.
AfterProbeAbortOnTimeout ==
    IF probeResult[svc] # "ready" THEN "except_Exc"
    ELSE IF svc = "frontend" THEN "start_monitor"
    ELSE IF script = "full" THEN "test_endpoints"
    ELSE "cat_test"

AfterProbe ==
    IF svc = "frontend" THEN "start_monitor"
    ELSE IF script = "full" THEN "test_endpoints"
    ELSE IF probeResult[svc] = "ready" THEN "cat_test"
    ELSE "frontend_manual"

ProbeReturn ==
    /\ pc = "probe_ret"
    /\ pc' = AfterProbe
    /\ ProbeLocalsReset
    /\ UNCHANGED <<script, procVars, svc, probeResult, exitVars, startVars, monVars>>

\* ------------------------------------------------- steps after the backend

\* Step 6 of run(): two GETs; RequestException is caught, anything else
\* propagates to run()'s handlers.
TestEndpoints ==
    /\ pc = "test_endpoints"
    /\ \E r \in Responses :
         IF r.error = "none" \/ IsSwallowed(r)
         THEN pc' = "start_frontend" /\ UNCHANGED exitVars
         ELSE RaiseInTry
    /\ UNCHANGED <<script, procVars, probeVars, startVars, monVars>>

\* start_simple: the categories GET sits inside a bare "except:", which
\* swallows every failure.
CategoriesTest ==
    /\ pc = "cat_test"
    /\ pc' = "frontend_manual"
    /\ UNCHANGED <<script, procVars, probeVars, exitVars, startVars, monVars>>

\* start_frontend() reports False.
StartFrontendFailsIgnored ==
    /\ startOk' = [startOk EXCEPT !["frontend"] = "False"]
    /\ pc' = "sleep_f"
    /\ UNCHANGED exitVars

StartFrontendFails ==
    /\ startOk' = [startOk EXCEPT !["frontend"] = "False"]
    /\ ReturnFromTry(FailValue, "frontend_failed")

\* start_frontend() reports True and run() goes on to step 8.
StartFrontendSucceedsSkipsProbe ==
    /\ startOk' = [startOk EXCEPT !["frontend"] = "True"]
    /\ pc' = "start_monitor"
    /\ UNCHANGED exitVars

StartFrontendSucceeds ==
    /\ startOk' = [startOk EXCEPT !["frontend"] = "True"]
    /\ pc' = "sleep_f"
    /\ UNCHANGED exitVars

\* Step 7, start_frontend(): the directory and node_modules checks.
StartFrontend ==
    /\ pc = "start_frontend"
    /\ \E dirExists \in BOOLEAN, modulesExist \in BOOLEAN :
         IF ~dirExists
         THEN StartFrontendFails
         ELSE /\ pc' = IF modulesExist THEN "sf_popen" ELSE "sf_install"
              /\ UNCHANGED <<startOk, exitVars>>
    /\ UNCHANGED <<script, procVars, probeVars, depsOk, preempted, spawns, monVars>>

\* npm install.
InstallDependencies ==
    /\ pc = "sf_install"
    /\ \E res \in {"ok", "CalledProcessError", "FileNotFoundError"} :
         IF res = "CalledProcessError"
         THEN StartFrontendFails
         ELSE /\ pc' = IF res = "ok" THEN "sf_popen" ELSE "sf_alt_install"
              /\ UNCHANGED <<startOk, exitVars>>
    /\ UNCHANGED <<script, procVars, probeVars, depsOk, preempted, spawns, monVars>>

\* _try_alternative_install(): returns True whether or not the second
\* install worked, and start_frontend() returns that value at once.
TryAlternativeInstall ==
    /\ pc = "sf_alt_install"
    /\ StartFrontendSucceeds
    /\ UNCHANGED <<script, procVars, probeVars, depsOk, preempted, spawns, monVars>>

\* subprocess.Popen([npm_cmd, 'run', 'dev'], shell=True).
SpawnFrontend ==
    /\ pc = "sf_popen"
    /\ spawns' = [spawns EXCEPT !["frontend"] = @ + 1]
    /\ \E ok \in BOOLEAN :
         IF ok
         THEN Spawned("frontend") /\ StartFrontendSucceeds
         ELSE /\ pc' = "sf_alt_popen"
              /\ UNCHANGED <<procVars, startOk, exitVars>>
    /\ UNCHANGED <<script, probeVars, depsOk, preempted, monVars>>

\* "except Exception" of _try_alternative_frontend_start(): the error is
\* logged and False returned; no further start is tried.
AlternativeStartRetries ==
    /\ pc' = "sf_alt_popen"
    /\ UNCHANGED <<startOk, exitVars>>

AlternativeStartFails == StartFrontendFails

\* _try_alternative_frontend_start(): a second Popen of the same command.
TryAlternativeFrontendStart ==
    /\ pc = "sf_alt_popen"
    /\ spawns' = [spawns EXCEPT !["frontend"] = @ + 1]
    /\ \E ok \in BOOLEAN :
         IF ok
         THEN Spawned("frontend") /\ StartFrontendSucceeds
         ELSE AlternativeStartFails /\ UNCHANGED procVars
    /\ UNCHANGED <<script, probeVars, depsOk, preempted, monVars>>

\* Step 9, monitor_processes(): the daemon thread is started.
MonitorProcesses ==
    /\ pc = "start_monitor"
    /\ monitorOn' = TRUE
    /\ pc' = "open_browser"
    /\ UNCHANGED <<script, procVars, probeVars, exitVars, startVars, reported>>
    /\ UNCHANGED <<monTimer, watched, unwatched>>

\* start_simple step 4: the manual instructions for the frontend.
StartFrontendManual ==
    /\ pc = "frontend_manual"
    /\ pc' = "open_browser"
    /\ UNCHANGED <<script, procVars, probeVars, exitVars, startVars, monVars>>

\* time.sleep(2), then open_browser() / open_urls(); errors are caught.
OpenBrowser ==
    /\ pc = "open_browser"
    /\ pc' = "print_summary"
    /\ UNCHANGED <<script, procVars, probeVars, exitVars, startVars, monVars>>

PrintSummary ==
    /\ pc = "print_summary"
    /\ pc' = "idle"
    /\ UNCHANGED <<script, procVars, probeVars, exitVars, startVars, monVars>>

\* "while True: time.sleep(1)"
IdleWait ==
    /\ pc = "idle"
    /\ UNCHANGED vars

\* ------------------------------------------------- interrupt and handlers

\* The operator's interrupt signal: KeyboardInterrupt is raised in the
\* foreground thread wherever it is.
\*   - before the try statement and after the finally clause nothing
\*     catches it;
\*   - inside the try block "except KeyboardInterrupt" catches it (in
\*     start_simple the bare "except:" around the categories GET does);
\*   - inside a handler or inside the cleanup routine it propagates, the
\*     finally clause running first when it has not run yet.
\* The part of the try block a position belongs to.
Phase(p) ==
    IF p \in ProbePcs THEN "probe" ELSE IF p = "idle" THEN "idle" ELSE "step"

Interrupt ==
    /\ outcome = "running"
    /\ IF pc \in {"banner", "run_exit", "main_report"} \/ pc \in CleanupPcs
       THEN /\ outcome' = "KeyboardInterrupt"
            /\ pc' = "done"
            /\ UNCHANGED <<retVal, exitPath, raising, interruptedAt, cleanupCalls>>
       ELSE IF pc \in HandlerPcs
       THEN /\ raising' = "KeyboardInterrupt"
            /\ EnterFinally
            /\ UNCHANGED <<retVal, exitPath, interruptedAt, outcome>>
       ELSE IF pc = "cat_test"
       THEN /\ pc' = "frontend_manual"
            /\ UNCHANGED exitVars
       ELSE /\ pc' = "except_KI"
            /\ interruptedAt' = Phase(pc)
            /\ UNCHANGED <<retVal, exitPath, raising, outcome, cleanupCalls>>
    /\ ProbeLocalsReset
    /\ UNCHANGED <<script, procVars, svc, probeResult, startVars, monVars>>

\* "except KeyboardInterrupt": log "Shutdown requested", return True / 0.
ExceptKeyboardInterrupt ==
    /\ pc = "except_KI"
    /\ ReturnFromTry(OkValue, "interrupted")
    /\ UNCHANGED <<script, procVars, probeVars, startVars, monVars>>

\* "except Exception as e": log the error, return False / 1.
ExceptException ==
    /\ pc = "except_Exc"
    /\ ReturnFromTry(FailValue, "error")
    /\ ProbeLocalsReset
    /\ UNCHANGED <<script, procVars, svc, probeResult, startVars, monVars>>

\* ------------------------------------------------------------------ cleanup

\* The order in which the cleanup routine handles the services: cleanup()
\* has the backend block first, then the frontend block; start_simple
\* manages the backend alone.
CleanupOrderReversed ==
    IF script = "full" THEN <<"frontend", "backend">> ELSE <<"backend">>

CleanupOrder ==
    IF script = "full" THEN <<"backend", "frontend">> ELSE <<"backend">>

\* The service whose block the cleanup routine is in.
Current == CleanupOrder[clIdx]

\* "if self.backend_process:" / "if self.frontend_process:" / "if backend_process:"
IsManagedAlways(s) == TRUE

IsManaged(s) == handle[s] # "None"

\* Popen.terminate() and Popen.kill() poll the child first and send nothing
\* to a child that has exited.
SignalReaches(s) == os[s] = "running"

\* process.wait(timeout=5) raises TimeoutExpired when the child still runs
\* after this much time.
WaitWithoutTimeout(s) == waited + 1

WaitExpiresAt(s) == GracePeriod

\* The cleanup routine goes on after the block of the current service.
NextBlock ==
    /\ clIdx' = clIdx + 1
    /\ pc' = IF clIdx + 1 > Len(CleanupOrder) THEN "cl_end" ELSE "cl_guard"

\* "Shutting down..."
CleanupBegin ==
    /\ pc = "cl_begin"
    /\ pc' = "cl_guard"
    /\ clIdx' = 1
    /\ UNCHANGED <<handle, os, termLog, killed, timedOut, terminated, waited>>
    /\ UNCHANGED <<script, probeVars, exitVars, startVars, monVars>>

\* The guard of a block and, when it holds, process.terminate().  Calling
\* terminate() on None raises AttributeError out of the cleanup routine.
CleanupTerminate ==
    /\ pc = "cl_guard"
    /\ IF ~IsManaged(Current)
       THEN /\ NextBlock
            /\ UNCHANGED <<termLog, waited, exitVars>>
       ELSE IF handle[Current] = "None"
       THEN /\ outcome' = "Exception"
            /\ pc' = "done"
            /\ UNCHANGED <<termLog, waited, clIdx, retVal, exitPath, raising,
                           interruptedAt, cleanupCalls>>
       ELSE /\ termLog' = IF SignalReaches(Current)
                          THEN Append(termLog, Current) ELSE termLog
            /\ waited' = 0
            /\ pc' = "cl_wait"
            /\ UNCHANGED <<clIdx, exitVars>>
    /\ UNCHANGED <<handle, os, killed, timedOut, terminated>>
    /\ UNCHANGED <<script, probeVars, startVars, monVars>>

\* process.wait(timeout=5): one time unit passes while the child runs.
CleanupWaitTick ==
    /\ pc = "cl_wait"
    /\ os[Current] = "running"
    /\ waited < WaitExpiresAt(Current)
    /\ waited' = waited + 1
    /\ UNCHANGED <<handle, os, termLog, killed, timedOut, terminated, clIdx>>
    /\ UNCHANGED <<script, pc, probeVars, exitVars, startVars, monVars>>

\* process.wait(timeout=5) returns: the child has exited.
CleanupWaitReturns ==
    /\ pc = "cl_wait"
    /\ os[Current] # "running"
    /\ terminated' = terminated \cup {Current}
    /\ NextBlock
    /\ UNCHANGED <<handle, os, termLog, killed, timedOut, waited>>
    /\ UNCHANGED <<script, probeVars, exitVars, startVars, monVars>>

\* process.wait(timeout=5) raises TimeoutExpired.
CleanupWaitExpires ==
    /\ pc = "cl_wait"
    /\ os[Current] = "running"
    /\ waited >= WaitExpiresAt(Current)
    /\ timedOut' = timedOut \cup {Current}
    /\ pc' = "cl_kill"
    /\ UNCHANGED <<handle, os, termLog, killed, terminated, waited, clIdx>>
    /\ UNCHANGED <<script, probeVars, exitVars, startVars, monVars>>

\* "except subprocess.TimeoutExpired: process.kill()": the kill is sent and
\* the block ends without waiting for the child again.
CleanupKill ==
    /\ pc = "cl_kill"
    /\ killed' = IF SignalReaches(Current) THEN killed \cup {Current} ELSE killed
    /\ terminated' = terminated \cup {Current}
    /\ NextBlock
    /\ UNCHANGED <<handle, os, termLog, timedOut, waited>>
    /\ UNCHANGED <<script, probeVars, exitVars, startVars, monVars>>

\* "Cleanup completed": the finally clause is over.
CleanupEnd ==
    /\ pc = "cl_end"
    /\ pc' = "run_exit"
    /\ UNCHANGED <<script, procVars, probeVars, exitVars, startVars, monVars>>

\* ----------------------------------------------------------- launcher exit

\* The completion status main() gives for what run() returned.
StatusOf(v) == IF v \in {"True", "0"} THEN "exit0" ELSE "exit1"

\* run() / start_simple's main() leaves its try statement: a propagating
\* exception goes on to the interpreter, otherwise the kept value is
\* returned (start_simple's main() returns it as the status).
RunExit ==
    /\ pc = "run_exit"
    /\ IF raising # "none"
       THEN outcome' = raising /\ pc' = "done"
       ELSE IF script = "full"
       THEN outcome' = outcome /\ pc' = "main_report"
       ELSE outcome' = StatusOf(retVal) /\ pc' = "done"
    /\ UNCHANGED <<retVal, exitPath, raising, interruptedAt, cleanupCalls>>
    /\ UNCHANGED <<script, procVars, probeVars, startVars, monVars>>

\* main() of start_expenseflow: "if success: ... else: ... return 1; return 0".
MainReport ==
    /\ pc = "main_report"
    /\ outcome' = StatusOf(retVal)
    /\ pc' = "done"
    /\ UNCHANGED <<retVal, exitPath, raising, interruptedAt, cleanupCalls>>
    /\ UNCHANGED <<script, procVars, probeVars, startVars, monVars>>

\* --------------------------------------------- operating system and monitor

\* A running child exits, on its own or because it honours a termination
\* request.
ChildExits(s) ==
    /\ os[s] = "running"
    /\ os' = [os EXCEPT ![s] = "exited"]
    /\ UNCHANGED <<handle, termLog, killed, timedOut, terminated, waited, clIdx>>
    /\ UNCHANGED <<script, pc, probeVars, exitVars, startVars, monVars>>

\* A forceful kill cannot be ignored: the child it was sent to exits.
KillTakesEffect(s) ==
    /\ s \in killed
    /\ ChildExits(s)

\* One pass of the monitor thread's loop body after its sleep: every handle
\* that is set and whose poll() is not None is reported.  The thread is a
\* daemon: it stops with the launcher.
Stopped == {s \in Services : handle[s] # "None" /\ os[s] = "exited"}

MonitorCheckRestarts ==
    /\ monitorOn
    /\ outcome = "running"
    /\ reported' = reported \cup Stopped
    /\ os' = [s \in Services |-> IF s \in Stopped THEN "running" ELSE os[s]]
    /\ UNCHANGED <<handle, termLog, killed, timedOut, terminated, waited, clIdx>>
    /\ UNCHANGED <<script, pc, probeVars, exitVars, startVars, monitorOn>>
    /\ UNCHANGED <<monTimer, watched, unwatched>>

MonitorCheck ==
    /\ monitorOn
    /\ outcome = "running"
    /\ reported' = reported \cup Stopped
    /\ UNCHANGED <<script, pc, procVars, probeVars, exitVars, startVars, monitorOn>>
    /\ UNCHANGED <<monTimer, watched, unwatched>>

\* ------------------------------------------------------------ specification

Next ==
    \/ Banner
    \/ CheckNodeInstalled
    \/ KillExistingProcesses
    \/ CreateEnvFile
    \/ StartBackend
    \/ SleepThenProbeBackend
    \/ SleepThenProbeFrontend
    \/ ProbeGet
    \/ ProbeSleep
    \/ ProbeReturn
    \/ TestEndpoints
    \/ CategoriesTest
    \/ StartFrontend
    \/ InstallDependencies
    \/ TryAlternativeInstall
    \/ SpawnFrontend
    \/ TryAlternativeFrontendStart
    \/ MonitorProcesses
    \/ StartFrontendManual
    \/ OpenBrowser
    \/ PrintSummary
    \/ IdleWait
    \/ Interrupt
    \/ ExceptKeyboardInterrupt
    \/ ExceptException
    \/ CleanupBegin
    \/ CleanupTerminate
    \/ CleanupWaitTick
    \/ CleanupWaitReturns
    \/ CleanupWaitExpires
    \/ CleanupKill
    \/ CleanupEnd
    \/ RunExit
    \/ MainReport
    \/ \E s \in Services : ChildExits(s)
    \/ \E s \in Services : KillTakesEffect(s)
    \/ MonitorCheck

Spec == Init /\ [][Next]_vars

\* ------------------------------------------------ the monitor thread in time

\* The backend has exited without a termination request having reached it,
\* and the monitor has not reported it.
BackendGone ==
    /\ os["backend"] = "exited"
    /\ \A k \in DOMAIN termLog : termLog[k] # "backend"
    /\ "backend" \notin reported

\* One time unit passes.  How long the foreground sequence stays at a
\* position is left open; the monitor thread's sleep is measured, and time
\* does not go past the end of that sleep before the thread has run.
TimePasses ==
    /\ outcome = "running"
    /\ monitorOn => monTimer < MonitorInterval
    /\ monTimer' = IF monitorOn THEN monTimer + 1 ELSE monTimer
    /\ watched' = IF BackendGone /\ monitorOn THEN watched + 1 ELSE watched
    /\ unwatched' = (unwatched \/ (BackendGone /\ ~monitorOn))
    /\ UNCHANGED <<script, pc, procVars, probeVars, exitVars, startVars,
                   monitorOn, reported>>

\* The monitor thread's time.sleep(10) ends: the loop body runs once and the
\* next sleep begins.
MonitorWakesWithoutCheck ==
    /\ monitorOn
    /\ outcome = "running"
    /\ monTimer = MonitorInterval
    /\ reported' = reported
    /\ monTimer' = 0
    /\ UNCHANGED watched
    /\ UNCHANGED <<script, pc, procVars, probeVars, exitVars, startVars,
                   monitorOn, unwatched>>

MonitorWakes ==
    /\ monitorOn
    /\ outcome = "running"
    /\ monTimer = MonitorInterval
    /\ reported' = reported \cup Stopped
    /\ monTimer' = 0
    /\ watched' = 0
    /\ UNCHANGED <<script, pc, procVars, probeVars, exitVars, startVars,
                   monitorOn, unwatched>>

\* The launcher with the monitor thread's sleep measured: a monitor pass
\* happens exactly when a sleep of MonitorInterval has ended.
NextTimed ==
    \/ Banner
    \/ CheckNodeInstalled
    \/ KillExistingProcesses
    \/ CreateEnvFile
    \/ StartBackend
    \/ SleepThenProbeBackend
    \/ SleepThenProbeFrontend
    \/ ProbeGet
    \/ ProbeSleep
    \/ ProbeReturn
    \/ TestEndpoints
    \/ CategoriesTest
    \/ StartFrontend
    \/ InstallDependencies
    \/ TryAlternativeInstall
    \/ SpawnFrontend
    \/ TryAlternativeFrontendStart
    \/ MonitorProcesses
    \/ StartFrontendManual
    \/ OpenBrowser
    \/ PrintSummary
    \/ IdleWait
    \/ Interrupt
    \/ ExceptKeyboardInterrupt
    \/ ExceptException
    \/ CleanupBegin
    \/ CleanupTerminate
    \/ CleanupWaitTick
    \/ CleanupWaitReturns
    \/ CleanupWaitExpires
    \/ CleanupKill
    \/ CleanupEnd
    \/ RunExit
    \/ MainReport
    \/ \E s \in Services : ChildExits(s)
    \/ \E s \in Services : KillTakesEffect(s)
    \/ TimePasses
    \/ MonitorWakes

SpecTimed == Init /\ [][NextTimed]_vars

\* ------------------------------------------- a termination request that fails

\* process.terminate() itself raises (the operating system refuses the
\* signal, e.g. PermissionError).  cleanup() has no handler around the
\* call and runs inside the finally clause: the error leaves cleanup(),
\* replaces whatever run() was returning, and ends the launcher.
CleanupTerminateRaises ==
    /\ pc = "cl_guard"
    /\ IsManaged(Current)
    /\ os[Current] = "running"
    /\ outcome' = "OSError"
    /\ pc' = "done"
    /\ UNCHANGED <<retVal, exitPath, raising, interruptedAt, cleanupCalls>>
    /\ UNCHANGED <<script, procVars, probeVars, startVars, monVars>>

\* The launcher on a system where a termination request can be refused.
NextTermFault ==
    \/ Next
    \/ CleanupTerminateRaises

SpecTermFault == Init /\ [][NextTermFault]_vars

\* --------------------------------------------------- the cleanup under fairness

\* A step of the cleanup routine, the timer of wait(timeout=5) included.
CleanupStep ==
    \/ CleanupBegin
    \/ CleanupTerminate
    \/ CleanupWaitTick
    \/ CleanupWaitReturns
    \/ CleanupWaitExpires
    \/ CleanupKill
    \/ CleanupEnd

\* The foreground thread is scheduled and time goes by while the cleanup
\* routine runs; a forceful kill takes effect.  Nothing is assumed of a
\* child that was only asked to terminate.
SpecFair ==
    /\ Spec
    /\ WF_vars(CleanupStep)
    /\ \A s \in Services : WF_vars(KillTakesEffect(s))

\* ------------------------------------------------------------------- claims

\* The launcher has ended, by a return or by an uncaught exception.
Ended == outcome # "running"

\* The try statement was entered and left again: a return statement inside
\* it ran, or an exception left it.
LeftTry == exitPath # "none" \/ raising # "none"

\* Position of service s in termLog, 0 when no request reached it.
TermIndex(s) ==
    IF \E k \in DOMAIN termLog : termLog[k] = s
    THEN CHOOSE k \in DOMAIN termLog : termLog[k] = s
    ELSE 0

\* C1: on every exit path through the try statement (success, probe
\* timeout, missing dependency, spawn failure, interrupt at any startup step
\* or in the idle-wait, unhandled error) the cleanup routine is entered
\* exactly once; it is never entered twice, and it is entered from the
\* finally clause alone, so not before the try block has been left.
C1_CleanupExactlyOnce ==
    /\ cleanupCalls <= 1
    /\ (Ended /\ LeftTry) => cleanupCalls = 1
    /\ (pc \in TryPcs \cup HandlerPcs \cup {"banner"}) => cleanupCalls = 0
    /\ pc \in CleanupPcs => cleanupCalls = 1

\* C1 witness: the interrupt arrived while the frontend probe was polling,
\* and the launcher has ended after one cleanup.
C1_Witness ==
    /\ script = "full"
    /\ Ended
    /\ interruptedAt = "probe"
    /\ svc = "frontend"
    /\ exitPath = "interrupted"
    /\ cleanupCalls = 1

\* C2 as stated: whenever a termination request reached both services, the
\* frontend's came before the backend's (reverse start order).
C2_ReverseStartOrder ==
    (TermIndex("backend") > 0 /\ TermIndex("frontend") > 0)
        => TermIndex("frontend") < TermIndex("backend")

\* C2 amended: the cleanup routine terminates in start order.  Whenever a
\* termination request reached both services, the backend's came first, and
\* the frontend gets none before the backend's terminate-wait-kill block
\* has completed.
C2_StartOrder ==
    /\ (TermIndex("backend") > 0 /\ TermIndex("frontend") > 0)
           => TermIndex("backend") < TermIndex("frontend")
    /\ (TermIndex("frontend") > 0 /\ handle["backend"] # "None")
           => "backend" \in terminated

\* C2 witness: both services were running when the cleanup routine reached
\* them, and both have been sent their termination request.
C2_Witness ==
    /\ Len(termLog) = 2
    /\ TermIndex("backend") > 0
    /\ TermIndex("frontend") > 0

\* C3 as stated: a forceful kill is sent only after a graceful request and
\* only when wait(timeout=5) expired with the child still running, and once
\* the terminate-wait-kill block of a service has completed the child is no
\* longer reported alive.
C3_TerminateLeavesNoLiveProcess ==
    \A s \in Services :
        /\ s \in killed => (TermIndex(s) > 0 /\ s \in timedOut)
        /\ s \in terminated => os[s] # "running"

\* A step of the terminate-wait-kill block of the current service.
CleanupBlockStep ==
    \/ CleanupTerminate
    \/ CleanupWaitTick
    \/ CleanupWaitReturns
    \/ CleanupWaitExpires
    \/ CleanupKill

\* C4: for a service that was never started (handle None) or whose child has
\* already exited, every step of its block in the cleanup routine is a
\* no-op: no termination request and no kill is delivered, no error is
\* raised, and handles and children stay as they are.
C4_NoOpWhenNotRunning ==
    [][(CleanupBlockStep /\ (handle[Current] = "None" \/ os[Current] = "exited"))
          => /\ termLog' = termLog
             /\ killed' = killed
             /\ timedOut' = timedOut
             /\ handle' = handle
             /\ os' = os
             /\ outcome' = "running"
             /\ raising' = raising]_vars

\* C4 witness: the cleanup routine has run to its end over a backend that
\* had exited before and a frontend that was never started, and nothing was
\* sent.
C4_Witness ==
    /\ script = "full"
    /\ pc = "run_exit"
    /\ handle["backend"] = "Popen"
    /\ handle["frontend"] = "None"
    /\ "backend" \in terminated
    /\ termLog = <<>>
    /\ killed = {}

\* C5: the probe returns True exactly at the first attempt answered with
\* status 200: every earlier attempt was not ready (another status, a
\* connection error or a request timeout) and was followed by more polling,
\* so True comes after notReady + 1 attempts; it returns False only when
\* all attempts of its budget were not ready (or, in start_simple, when the
\* HTTP client is missing and no attempt is made).
C5_ReadyOnFirst200 ==
    /\ pc \in {"probe_get", "probe_sleep"} => attempts = notReady
    /\ pc = "probe_sleep" =>
          \/ lastResp.error = "none" /\ lastResp.status # 200
          \/ lastResp.error \in {"ConnectionError", "Timeout"}
    /\ (pc = "probe_ret" /\ probeResult[svc] = "ready") =>
          /\ lastResp.error = "none"
          /\ lastResp.status = 200
          /\ attempts = notReady + 1
          /\ attempts <= ProbeTimeout(svc)
    /\ (pc = "probe_ret" /\ probeResult[svc] = "timeout") =>
          /\ notReady = ProbeTimeout(svc)
          /\ attempts = notReady
    /\ (pc = "probe_ret" /\ probeResult[svc] = "no_client") =>
          /\ script = "simple"
          /\ attempts = 0
    /\ pc = "probe_ret" => probeResult[svc] \in {"ready", "timeout", "no_client"}

\* C5 witness: five attempts that were not ready, then a 200: True after
\* exactly six attempts.
C5_Witness ==
    /\ pc = "probe_ret"
    /\ probeResult[svc] = "ready"
    /\ notReady = 5
    /\ attempts = 6
    /\ lastResp.status = 200

\* An exception raised by a GET of the probe has left the probe and reached
\* the caller's handler.
ProbeRaised == pc = "except_Exc" /\ lastResp # NoResponse

\* C6 as stated: whatever the HTTP collaborator does, the probe never
\* raises.
C6_ProbeNeverRaises == ~ProbeRaised

\* ceil(a / b) for positive b.
CeilDiv(a, b) == (a + b - 1) \div b

\* C7: one probe call issues at most ceil(timeout / pollInterval) attempts:
\* at most 30 for the backend and 45 for the frontend.
C7_BoundedAttempts ==
    /\ attempts <= CeilDiv(ProbeTimeout(svc), PollInterval)
    /\ svc = "backend" => attempts <= BackendTimeout
    /\ svc = "frontend" => attempts <= FrontendTimeout

\* C7 witness: the frontend probe has used its whole budget of 45 attempts.
C7_Witness ==
    /\ pc = "probe_ret"
    /\ svc = "frontend"
    /\ probeResult[svc] = "timeout"
    /\ attempts = FrontendTimeout

\* C8 as stated: the overall timeout is elapsed time.  No attempt is issued
\* once `timeout` time units have passed since the probe was called, and
\* False is returned no later than one attempt and one sleep after that.
C8_DeadlineInElapsedTime ==
    /\ pc = "probe_get" => elapsed < ProbeTimeout(svc)
    /\ (pc = "probe_ret" /\ probeResult[svc] = "timeout")
          => elapsed <= ProbeTimeout(svc) + RequestTimeout + PollInterval

\* The step in which a probe that was not ready returns to its caller.
ProbeReturnsFalse ==
    /\ pc = "probe_ret"
    /\ probeResult[svc] # "ready"
    /\ pc' \notin {"probe_ret", "except_KI"}

\* C9: a probe that returns False is not fatal.  After the backend probe
\* run() goes on with its next step towards the frontend start (start_simple
\* with the manual frontend step), after the frontend probe with the monitor
\* and the idle-wait; no exception and no failure return comes from a probe
\* that timed out: the handler of errors is entered only from a step that
\* raised, and a failure value is returned only by a dependency check, a
\* start operation or that handler.
C9_ProbeTimeoutNonFatal ==
    /\ [][ProbeReturnsFalse =>
             pc' = IF svc = "frontend" THEN "start_monitor"
                   ELSE IF script = "full" THEN "test_endpoints"
                   ELSE "frontend_manual"]_vars
    /\ [][(pc' = "except_Exc" /\ pc # "except_Exc") =>
             \/ pc \in {"create_env", "test_endpoints"}
             \/ pc = "probe_get" /\ lastResp'.error = "OtherError"]_vars
    /\ [][(retVal = "none" /\ retVal' \in {"False", "1"}) =>
             pc \in {"check_node", "start_backend", "start_frontend",
                     "sf_install", "sf_alt_popen", "except_Exc"}]_vars

\* C9 witness: both probes timed out and run() is in its idle-wait with the
\* monitor started.
C9_Witness ==
    /\ pc = "idle"
    /\ monitorOn
    /\ probeResult["backend"] = "timeout"
    /\ probeResult["frontend"] = "timeout"

\* Positions after the try block: the cleanup routine and the exit.
AfterTryPcs == CleanupPcs \cup {"run_exit", "main_report", "done"}

\* C10: when a start operation reports failure the startup sequence stops
\* there: the failure return is taken at once, no later step has run (no
\* frontend start after a backend failure, no frontend probe, no monitor),
\* and when the launcher then returns, it returns status 1 after the
\* cleanup routine has run to its end, the backend, if it was started,
\* having been sent its termination request unless it had exited already.
C10_FatalStartAborts ==
    /\ \A s \in Services : startOk[s] = "False" =>
          /\ exitPath = s \o "_failed"
          /\ pc \in AfterTryPcs
          /\ probeResult["frontend"] = "none"
          /\ ~monitorOn
          /\ handle["frontend"] = "None"
    /\ startOk["backend"] = "False" =>
          /\ probeResult["backend"] = "none"
          /\ spawns["frontend"] = 0
          /\ handle["backend"] = "None"
    /\ exitPath \in {"backend_failed", "frontend_failed"} =>
          /\ outcome \in {"running", "exit1", "KeyboardInterrupt"}
          /\ outcome = "exit1" =>
                /\ cleanupCalls = 1
                /\ handle["backend"] # "None" =>
                      /\ "backend" \in terminated
                      /\ TermIndex("backend") > 0 \/ os["backend"] = "exited"

\* C10 witness: the frontend could not be started while the backend was
\* running; the backend was sent its termination request and the launcher
\* returned 1.
C10_Witness ==
    /\ startOk["frontend"] = "False"
    /\ startOk["backend"] = "True"
    /\ TermIndex("backend") > 0
    /\ outcome = "exit1"

\* C11: whenever a start operation has reported success, the supervisor
\* holds a process handle for that service, and the handle comes from a
\* spawn that was made: success is never reported with the handle unset.
C11_StartSuccessHasHandle ==
    \A s \in Services :
        startOk[s] = "True" => handle[s] = "Popen" /\ spawns[s] >= 1

\* C12, as claimed: each service's spawn is attempted at most once per run.
C12_SpawnAtMostOnce ==
    \A s \in Services : spawns[s] <= 1

\* C12, as the code has it: the backend's spawn is attempted at most once;
\* the frontend's at most twice, the second attempt being the alternative
\* start, made only right after the first attempt failed and left no
\* process; when the alternative start fails too, start_frontend() reports
\* False and nothing further is spawned.
C12_SpawnAtMostOnceThenAlternative ==
    /\ [](spawns["backend"] <= 1 /\ spawns["frontend"] <= 2)
    /\ [][spawns'["frontend"] = 2 /\ spawns["frontend"] = 1 =>
             /\ pc = "sf_alt_popen"
             /\ handle["frontend"] = "None"
             /\ os["frontend"] = "none"]_vars
    /\ [](spawns["frontend"] = 2 /\ handle["frontend"] = "None" =>
             startOk["frontend"] = "False" /\ pc \notin StartFrontendPcs)

\* C12 witness: both attempts at starting the frontend were made and both
\* failed; the run went on to its failure return.
C12_Witness ==
    /\ spawns["frontend"] = 2
    /\ handle["frontend"] = "None"
    /\ startOk["frontend"] = "False"
    /\ exitPath = "frontend_failed"

\* C13: the monitor is cancelled when the supervisor shuts down: once the
\* cleanup routine has been entered the monitor emits no further "process
\* stopped" report, so it never reports a process that the supervisor itself
\* sent a termination request to.
C13_MonitorCancelledAtCleanup ==
    [][cleanupCalls >= 1 => reported' = reported]_vars

\* A lower bound of the time since the backend exited on its own, while it
\* is unreported: the time passed under the monitor, and at least one more
\* unit when time had passed before the monitor was started.
GoneForAtLeast == watched + (IF unwatched THEN 1 ELSE 0)

\* C14, as claimed: when the backend exits on its own, the monitor reports
\* it within one monitor interval (10 time units) of the exit: as long as
\* the launcher runs, an exited backend is never unreported for longer.
C14_ReportedWithinIntervalOfExit ==
    (outcome = "running" /\ BackendGone) => GoneForAtLeast <= MonitorInterval

\* C14, as the code has it: the monitor exists only from step 9 of
\* start_expenseflow on.  While it runs and the launcher has not ended, a
\* backend that exited on its own is reported no later than one monitor
\* interval after the exit or after the monitor was started, whichever is
\* later; a monitor pass changes nothing of the foreground sequence.
C14_ReportedWithinIntervalOfWatch ==
    /\ [](monitorOn /\ outcome = "running" /\ BackendGone =>
             watched <= MonitorInterval /\ watched <= monTimer)
    /\ [](~monitorOn => reported = {})
    /\ [][reported' # reported =>
             /\ BackendGone => "backend" \in reported'
             /\ \A s \in reported' \ reported : os[s] = "exited"
             /\ UNCHANGED <<pc, procVars, probeVars, exitVars, startVars>>]_vars

\* C14 witness: the backend exited while the monitor was running, the
\* monitor's sleep ended and the pass reported it; the foreground sequence
\* is still in its idle-wait.
C14_Witness ==
    /\ "backend" \in reported
    /\ os["backend"] = "exited"
    /\ ~unwatched
    /\ monTimer = 0
    /\ pc = "idle"
    /\ outcome = "running"

\* C15: when the Node.js / npm check has failed, the sequence aborts before
\* any side effect on processes: no preemption by name has run, no backend
\* or frontend was spawned, the try block has been left by the failure
\* return, and a launcher that returns gives status 1.
C15_DependencyMissingAborts ==
    depsOk = "False" =>
        /\ preempted = "no"
        /\ \A s \in Services :
              spawns[s] = 0 /\ handle[s] = "None" /\ os[s] = "none"
        /\ startOk = [s \in Services |-> "none"]
        /\ pc \in AfterTryPcs
        /\ exitPath = "dep_missing"
        /\ retVal = "False"
        /\ outcome \in {"running", "exit1", "KeyboardInterrupt"}

\* C15 witness: the check failed and the launcher returned status 1 after
\* its cleanup, having touched no process.
C15_Witness ==
    /\ depsOk = "False"
    /\ outcome = "exit1"
    /\ cleanupCalls = 1
    /\ preempted = "no"

\* C16: at most one managed process per logical name: the preemption by
\* name has run before anything is spawned, and a handle is written only by
\* a spawn for a name that has no process of this run yet, so no handle is
\* replaced while the previously spawned process for that name is alive.
C16_OneProcessPerName ==
    /\ [](\A s \in Services :
             (spawns[s] > 0 \/ handle[s] # "None" \/ os[s] # "none") =>
                 preempted # "no")
    /\ [][\A s \in Services :
             (handle'[s] # handle[s] \/ (os'[s] = "running" /\ os[s] # "running")) =>
                 /\ handle[s] = "None" /\ os[s] = "none"
                 /\ handle'[s] = "Popen" /\ os'[s] = "running"
                 /\ spawns'[s] = spawns[s] + 1
                 /\ preempted # "no"]_vars

\* C16 witness: the frontend's handle was written by the alternative start,
\* the second spawn attempt for that name, after the preemption had run.
C16_Witness ==
    /\ spawns["frontend"] = 2
    /\ handle["frontend"] = "Popen"
    /\ os["frontend"] = "running"
    /\ os["backend"] = "running"
    /\ preempted = "ok"

\* C18: an error of the preemption by name is never fatal: whichever way
\* kill_existing_processes() went, it returns normally, nothing is raised
\* or returned out of the try block, and the sequence takes the next step
\* towards starting the backend (only an interrupt diverts it).
C18_PreemptionErrorNonFatal ==
    /\ [][(pc = "kill_existing" /\ pc' # "kill_existing" /\ pc' # "except_KI") =>
             /\ pc' = IF script = "full" THEN "create_env" ELSE "start_backend"
             /\ preempted' \in {"ok", "warning"}
             /\ UNCHANGED exitVars]_vars
    /\ [](startOk["backend"] # "none" => preempted \in {"ok", "warning"})

\* C18 witness: the preemption ended with a warning and the backend was
\* started after it.
C18_Witness ==
    /\ preempted = "warning"
    /\ startOk["backend"] = "True"
    /\ os["backend"] = "running"

\* C17: an error raised by a termination request during cleanup is not
\* fatal: it never ends the launcher, and a cleanup that was not
\* interrupted has handled every managed process by the time the launcher
\* has ended.
C17_TerminationErrorNonFatal ==
    /\ outcome # "OSError"
    /\ (Ended /\ cleanupCalls = 1 /\ outcome # "KeyboardInterrupt") =>
          \A s \in Services : handle[s] # "None" => s \in terminated

\* C19: an interrupt during the idle-wait is a normal shutdown: the handler
\* returns the success value, the cleanup routine runs once, and a launcher
\* that returns gives status 0, never status 1.  Only a further interrupt,
\* arriving in the handler, in cleanup or after it, ends the launcher with
\* an uncaught KeyboardInterrupt instead.
C19_IdleInterruptIsSuccess ==
    /\ [](interruptedAt = "idle" =>
             /\ pc \in {"except_KI"} \cup AfterTryPcs
             /\ retVal \in {"none", IF script = "full" THEN "True" ELSE "0"}
             /\ outcome \in {"running", "exit0", "KeyboardInterrupt"}
             /\ outcome = "exit0" =>
                   /\ cleanupCalls = 1
                   /\ exitPath = "interrupted"
                   /\ \A s \in Services : handle[s] # "None" => s \in terminated)
    /\ [][(interruptedAt = "idle" /\ outcome' = "KeyboardInterrupt"
              /\ outcome = "running") =>
             (raising = "KeyboardInterrupt"
                 \/ pc \in CleanupPcs \cup {"run_exit", "main_report"})]_vars

\* C19 witness: start_expenseflow was interrupted in its idle-wait with both
\* services started, cleaned up, and ended with status 0.
C19_Witness ==
    /\ script = "full"
    /\ interruptedAt = "idle"
    /\ outcome = "exit0"
    /\ terminated = Services
    /\ cleanupCalls = 1

\* The readiness probe of service s has finished, ready or timed out.
ProbeFinished(s) == probeResult[s] \in {"ready", "timeout"}

\* C20: the startup steps are strictly ordered: the frontend's start is not
\* begun, and nothing is spawned for it, before the backend was spawned
\* successfully and the backend probe has finished; the monitor is started
\* and the idle-wait of start_expenseflow begun only after the frontend
\* probe has finished, and the idle-wait only after the monitor was started.
C20_StartupStepsOrdered ==
    /\ \A s \in Services : spawns[s] > 0 => preempted # "no"
    /\ (spawns["frontend"] > 0 \/ startOk["frontend"] # "none"
            \/ pc \in StartFrontendPcs) =>
          /\ startOk["backend"] = "True"
          /\ handle["backend"] = "Popen"
          /\ ProbeFinished("backend")
    /\ (svc = "backend" /\ pc \in ProbePcs) => startOk["backend"] = "True"
    /\ (svc = "frontend" /\ pc \in ProbePcs) => startOk["frontend"] = "True"
    /\ (monitorOn \/ pc = "start_monitor") =>
          /\ ProbeFinished("frontend")
          /\ ProbeFinished("backend")
    /\ (script = "full" /\ pc \in {"open_browser", "print_summary", "idle"}) =>
          /\ monitorOn
          /\ ProbeFinished("frontend")
    /\ (script = "simple" /\ pc = "idle") =>
          /\ startOk["backend"] = "True"
          /\ probeResult["backend"] # "none"

\* C20 witness: start_expenseflow reached its idle-wait with the backend
\* ready, the frontend probe timed out and the monitor running.
C20_Witness ==
    /\ pc = "idle"
    /\ script = "full"
    /\ probeResult = [backend |-> "ready", frontend |-> "timeout"]
    /\ spawns = [backend |-> 1, frontend |-> 1]
    /\ monitorOn

\* C21: the cleanup routine always completes: once entered it is left again
\* (run to its end, or abandoned by an interrupt), whatever the children do:
\* a wait on a child never lasts longer than the grace period, and after
\* the forceful kill the child is not waited for.
C21_CleanupCompletes ==
    /\ (pc \in CleanupPcs) ~> (pc \notin CleanupPcs)
    /\ [](waited <= GracePeriod)
    /\ [][pc = "cl_kill" /\ pc' # pc => pc' # "cl_wait"]_vars

\* C21 witness: both children ignored the graceful request, both waits
\* expired, both were killed, and the cleanup routine has run to its end.
C21_Witness ==
    /\ timedOut = Services
    /\ killed = Services
    /\ pc = "run_exit"
    /\ cleanupCalls = 1

\* C22: the monitor is detection-only: a step that adds a report changes
\* nothing but the set of reports: no handle, no process, no termination or
\* kill record, no spawn count and no position of the foreground sequence.
\* The handles are written by the foreground sequence alone, in its start
\* steps.
C22_MonitorDetectionOnly ==
    /\ [][reported' # reported =>
             /\ reported \subseteq reported'
             /\ \A s \in reported' \ reported :
                   handle[s] # "None" /\ os[s] = "exited"
             /\ UNCHANGED <<script, pc, procVars, probeVars, exitVars,
                            startVars, monitorOn>>]_vars
    /\ [][handle' # handle =>
             /\ pc \in {"start_backend", "sf_popen", "sf_alt_popen"}
             /\ pc' # pc
             /\ reported' = reported]_vars
    /\ [][\A s \in Services : os[s] = "exited" => os'[s] = "exited"]_vars

\* C22 witness: the monitor reported the exited backend; its handle is still
\* set, it was neither restarted nor sent anything, and the foreground
\* sequence is in its idle-wait.
C22_Witness ==
    /\ reported = {"backend"}
    /\ handle["backend"] = "Popen"
    /\ os = [backend |-> "exited", frontend |-> "running"]
    /\ spawns["backend"] = 1
    /\ termLog = <<>>
    /\ killed = {}
    /\ pc = "idle"

\* C23: no orphaned children: when the launcher has returned its status,
\* whatever the exit path and wherever interrupts arrived, the cleanup
\* routine has handled every child this run spawned and none of them is
\* still alive.
C23_NoOrphanedChildren ==
    outcome \in {"exit0", "exit1"} =>
        \A s \in Services :
            handle[s] # "None" => s \in terminated /\ os[s] # "running"

\* C24: consecutive attempts of the probe are spaced exactly one poll
\* interval apart (which is what a request timeout shorter than the poll
\* interval is claimed to give): whenever the probe is about to issue the
\* attempt of iteration i, exactly i poll intervals have passed since the
\* probe was called.
C24_AttemptsOnePollIntervalApart ==
    pc = "probe_get" => elapsed = i * PollInterval

====
